---- MODULE Spec2Model ----
(***************************************************************************)
(* A model of qtmonaco's Monaco bridge (src/qtmonaco/monaco.py): the       *)
(* native-side mirror of the editor state, the encoder methods that send   *)
(* commands through the connector, and the dispatcher of inbound events.   *)
(*                                                                         *)
(* Python values are tagged records [t, v]: a str is the sequence of its   *)
(* characters, an int its number, a bool its truth value, None the empty   *)
(* tuple, a list the sequence of its items, a dict a record of values and  *)
(* a float a decimal number.  Every method is an operator from the object  *)
(* (the record Self) and its arguments to the object after the call and    *)
(* the exception raised (if any).                                          *)
(***************************************************************************)
EXTENDS Integers, Sequences, FiniteSets, TLC

VARIABLES value, language, theme, readonly, current_cursor, initialized,
          lsp_header, pylsp_host, connector, channel, buffer, extras, slots,
          outbound, signals, warnings, server, calls, remote, delivered,
          inbound

vars == <<value, language, theme, readonly, current_cursor, initialized,
          lsp_header, pylsp_host, connector, channel, buffer, extras, slots,
          outbound, signals, warnings, server, calls, remote, delivered,
          inbound>>

\* The variables of the bridge object.
bridge == <<value, language, theme, readonly, current_cursor, initialized,
            lsp_header, pylsp_host, connector, channel, buffer, extras,
            slots, outbound, signals, warnings>>

(***************************************************************************)
(* Bounds of the model.                                                    *)
(***************************************************************************)
\* Number of calls (encoder calls and inbound events) made on one bridge.
MaxSteps == 2
\* With the remote editor: calls of the application, and edits of the user.
MaxAppCalls == 2
MaxRemoteEdits == 1
\* With several bridges: constructions and readiness events, and starts of
\* the language server made by others.
MaxLspSteps == 3
MaxServerStarts == 1

(***************************************************************************)
(* Python values.                                                          *)
(***************************************************************************)
StrV(s) == [t |-> "str", v |-> s]
IntV(n) == [t |-> "int", v |-> n]
BoolV(b) == [t |-> "bool", v |-> b]
NoneV == [t |-> "none", v |-> <<>>]
DictV(r) == [t |-> "dict", v |-> r]
ListV(s) == [t |-> "list", v |-> s]

\* A float is a decimal number m * 10^e with a sign, m without trailing
\* zeros, or one of nan, inf and -inf.  The numbers of the model, ints and
\* the digits of a float, have at most nine digits.
FloatV(kind, neg, m, e) ==
    [t |-> "float", v |-> [kind |-> kind, neg |-> neg, m |-> m, e |-> e]]

\* isinstance(x, str)
IsStr(x) == x.t = "str"

\* The number a bool or an int stands for (bool is a subclass of int).
Num(x) == IF x.t = "bool" THEN (IF x.v THEN 1 ELSE 0) ELSE x.v

RECURSIVE Pow10(_)
Pow10(e) == IF e = 0 THEN 1 ELSE 10 * Pow10(e - 1)

\* Python's == on two numbers (bool, int or float).
NumEq(a, b) ==
    IF a.t # "float" /\ b.t # "float" THEN Num(a) = Num(b)
    ELSE IF a.t = "float" /\ b.t = "float"
    THEN /\ a.v.kind # "nan"
         /\ a.v.kind = b.v.kind
         /\ a.v.m = b.v.m
         /\ a.v.e = b.v.e
         /\ (a.v.neg = b.v.neg \/ (a.v.kind = "finite" /\ a.v.m = 0))
    ELSE LET f == IF a.t = "float" THEN a.v ELSE b.v
             n == IF a.t = "float" THEN Num(b) ELSE Num(a)
             abs == IF n < 0 THEN 0 - n ELSE n
         IN  /\ f.kind = "finite"
             /\ f.e \in 0..9
             /\ abs % Pow10(f.e) = 0
             /\ abs \div Pow10(f.e) = f.m
             /\ (f.neg <=> n < 0) \/ n = 0

\* Python's a == b on the values of the model.
RECURSIVE PyEq(_, _)

\* a is b or a == b, the way a container compares its items: json.loads
\* gives the same object for every NaN.
ItemEq(a, b) ==
    LET IsNaN(x) == x.t = "float" /\ x.v.kind = "nan"
    IN  (IsNaN(a) /\ IsNaN(b)) \/ PyEq(a, b)

PyEq(a, b) ==
    IF a.t \in {"int", "bool", "float"} /\ b.t \in {"int", "bool", "float"}
    THEN NumEq(a, b)
    ELSE IF a.t # b.t THEN FALSE
    ELSE IF a.t = "dict"
    THEN /\ DOMAIN a.v = DOMAIN b.v
         /\ \A k \in DOMAIN a.v : ItemEq(a.v[k], b.v[k])
    ELSE IF a.t = "list"
    THEN /\ Len(a.v) = Len(b.v)
         /\ \A i \in 1..Len(a.v) : ItemEq(a.v[i], b.v[i])
    ELSE a.v = b.v

\* Python's truth value of x (the test of "if x:").
Truthy(x) ==
    CASE x.t = "bool" -> x.v
      [] x.t = "int" -> x.v # 0
      [] x.t = "float" -> ~(x.v.kind = "finite" /\ x.v.m = 0)
      [] x.t = "str" -> x.v # <<>>
      [] x.t = "none" -> FALSE
      [] x.t = "dict" -> DOMAIN x.v # {}
      [] x.t = "list" -> x.v # <<>>
      [] OTHER -> TRUE

(***************************************************************************)
(* Characters and strings.  A character is written as itself when a TLA+   *)
(* string can hold it and by its Python escape otherwise: "\\x0b" is the   *)
(* vertical tab, "\\u2028" the line separator.                             *)
(***************************************************************************)
NL == "\n"
SP == " "
QUOTE == "\""
BACKSLASH == "\\"
DigitChars == <<"0", "1", "2", "3", "4", "5", "6", "7", "8", "9">>

HexChars ==
    <<"0", "1", "2", "3", "4", "5", "6", "7", "8", "9", "a", "b", "c", "d",
      "e", "f">>

\* The printable ASCII characters, from chr(32) to chr(126); the grave
\* accent is written by its escape.
Ascii ==
    <<" ", "!", "\"", "#", "$", "%", "&", "'", "(", ")", "*", "+", ",",
      "-", ".", "/", "0", "1", "2", "3", "4", "5", "6", "7", "8", "9", ":",
      ";", "<", "=", ">", "?", "@", "A", "B", "C", "D", "E", "F", "G", "H",
      "I", "J", "K", "L", "M", "N", "O", "P", "Q", "R", "S", "T", "U", "V",
      "W", "X", "Y", "Z", "[", "\\", "]", "^", "_", "\\x60", "a", "b", "c",
      "d", "e", "f", "g", "h", "i", "j", "k", "l", "m", "n", "o", "p", "q",
      "r", "s", "t", "u", "v", "w", "x", "y", "z", "{", "|", "}", "~">>

\* The n hexadecimal digits of cp, as text.
RECURSIVE HexText(_, _)
HexText(cp, n) ==
    IF n = 0 THEN ""
    ELSE HexText(cp \div 16, n - 1) \o HexChars[(cp % 16) + 1]

\* chr(cp)
CharOf(cp) ==
    CASE cp = 9 -> "\t"
      [] cp = 10 -> NL
      [] cp = 12 -> "\f"
      [] cp = 13 -> "\r"
      [] cp \in 32..126 -> Ascii[cp - 31]
      [] cp \in (0..255) \ ({9, 10, 12, 13} \cup (32..126)) ->
            "\\x" \o HexText(cp, 2)
      [] cp \in 256..65535 -> "\\u" \o HexText(cp, 4)
      [] OTHER -> "\\U" \o HexText(cp, 8)

\* The characters str.isspace() is true of, which str.strip() removes.
Whitespace ==
    {CharOf(cp) :
        cp \in (9..13) \cup (28..32) \cup {133, 160, 5760} \cup (8192..8202)
                  \cup {8232, 8233, 8239, 8287, 12288}}

\* str(n) for n >= 0, as done by the f-string of get_pylsp_host.
RECURSIVE IntToStr(_)
IntToStr(n) ==
    IF n < 10 THEN <<DigitChars[n + 1]>>
    ELSE IntToStr(n \div 10) \o <<DigitChars[(n % 10) + 1]>>

RECURSIVE LStrip(_)
LStrip(s) ==
    IF s # <<>> /\ Head(s) \in Whitespace THEN LStrip(Tail(s)) ELSE s

RECURSIVE RStrip(_)
RStrip(s) ==
    IF s # <<>> /\ s[Len(s)] \in Whitespace
    THEN RStrip(SubSeq(s, 1, Len(s) - 1)) ELSE s

\* str.strip()
Strip(s) == RStrip(LStrip(s))

\* str.endswith(c) for a one-character suffix
EndsWith(s, c) == s # <<>> /\ s[Len(s)] = c

(***************************************************************************)
(* json.loads: the JSON grammar as Python's decoder reads it, NaN,         *)
(* Infinity and -Infinity included.  A result is [ok, data]; ok = FALSE    *)
(* stands for JSONDecodeError.                                             *)
(***************************************************************************)
IsDigit(c) == \E i \in 1..10 : DigitChars[i] = c

DigitOf(c) == (CHOOSE i \in 1..10 : DigitChars[i] = c) - 1

RECURSIVE ParseInt(_)
ParseInt(s) ==
    IF Len(s) = 1 THEN DigitOf(s[1])
    ELSE 10 * ParseInt(SubSeq(s, 1, Len(s) - 1)) + DigitOf(s[Len(s)])

\* The character of s at i, or "" after the end of s.
At(s, i) == IF i \in 1..Len(s) THEN s[i] ELSE ""

\* s holds the characters of the word w from i on.
StartsAt(s, i, w) ==
    /\ i + Len(w) - 1 <= Len(s)
    /\ SubSeq(s, i, i + Len(w) - 1) = w


RECURSIVE SkipWs(_, _)
SkipWs(s, i) ==
    IF At(s, i) \in {SP, "\t", NL, "\r"} THEN SkipWs(s, i + 1) ELSE i

\* The first index from i on that holds no digit.
RECURSIVE DigitsEnd(_, _)
DigitsEnd(s, i) == IF IsDigit(At(s, i)) THEN DigitsEnd(s, i + 1) ELSE i

\* The result of a scan: a value and the index after it, or a failure.
Scanned(val, next) == [ok |-> TRUE, val |-> val, next |-> next]
NotScanned == [ok |-> FALSE, val |-> NoneV, next |-> 0]

\* float(): the float of the decimal number m * 10^e, m >= 0.  A double
\* below 2^-1022 is a multiple of 2^-1074, so that a decimal number below
\* 10^-315 is rounded to the nearest multiple, and the float is written by
\* the shortest decimal number that rounds to it (its repr).  From 10^-315
\* on, no two numbers of nine digits round to the same double.
RECURSIVE Digits(_)
Digits(m) == IF m < 10 THEN 1 ELSE 1 + Digits(m \div 10)

\* The number written by the decimal digits ds.
RECURSIVE NumOf(_)
NumOf(ds) ==
    IF ds = <<>> THEN 0
    ELSE 10 * NumOf(SubSeq(ds, 1, Len(ds) - 1)) + ds[Len(ds)]

\* The digits after the point of 2^1074 / 10^324 = 0.2024... and of
\* 10^324 / 2^1074 = 4.9406...
SubnormalsPerUnit ==
    <<2, 0, 2, 4, 0, 2, 2, 5, 3, 3, 0, 7, 3, 1, 0, 6, 1, 8, 3, 5, 2, 4, 9, 5,
      3, 4, 6, 7, 1, 8, 9, 1, 7, 3, 0, 7>>
UnitsPerSubnormal ==
    <<9, 4, 0, 6, 5, 6, 4, 5, 8, 4, 1, 2, 4, 6, 5, 4, 4, 1, 7, 6, 5, 6, 8, 7,
      9, 2, 8, 6, 8, 2, 2, 1, 3, 7, 2, 3>>

\* n * 10^s * c rounded to the nearest integer, for the constant c whose
\* integer part is c0 and whose digits after the point are ds.  The product
\* is computed in limbs of four digits, Acc[p] being the limb of weight
\* 10^(4p) with the carries of the limbs below it.
RoundMul(n, s, c0, ds) ==
    LET b == s % 4
        a == (s - b) \div 4
        last == (Len(ds) - b) \div 4
        F(i) == IF i = 0 THEN c0 * Pow10(b) + NumOf(SubSeq(ds, 1, b))
                ELSE NumOf(SubSeq(ds, b + 4 * i - 3, b + 4 * i))
        N(j) == (n \div Pow10(4 * j)) % 10000
        Term(j, p) == IF j - p \in 0..last THEN N(j) * F(j - p) ELSE 0
        Col(p) == Term(0, p) + Term(1, p) + Term(2, p)
        Acc[p \in (0 - last - 1)..2] ==
            IF p = 0 - last - 1 THEN 0 ELSE Col(p) + (Acc[p - 1] \div 10000)
        Top[p \in (0 - 1)..3] ==
            IF p = 3 THEN 0 ELSE Col(p) + 10000 * Top[p + 1]
        units == 0 - a
        whole == Acc[units]
                     + (IF units < 2 THEN 10000 * Top[units + 1] ELSE 0)
    IN  IF Acc[units - 1] % 10000 >= 5000 THEN whole + 1 ELSE whole

\* The k for which k * 2^-1074 is the double nearest to m * 10^e.
SubnormalIndex(m, e) == RoundMul(m, e + 324, 0, SubnormalsPerUnit)

\* The shortest decimal number <<g, E>>, g * 10^E, that rounds to
\* k * 2^-1074, the double of m * 10^e: the number next to m * 10^e with the
\* fewest digits, and below 10^-323 the number of 10^-324 nearest to the
\* double.
RECURSIVE Shortest(_, _, _, _)
Shortest(m, e, k, E) ==
    IF E < -323 THEN <<RoundMul(k, 0, 4, UnitsPerSubnormal), -324>>
    ELSE LET lo == m \div Pow10(E - e) IN
         IF lo > 0 /\ SubnormalIndex(lo, E) = k THEN <<lo, E>>
         ELSE IF SubnormalIndex(lo + 1, E) = k THEN <<lo + 1, E>>
         ELSE Shortest(m, e, k, E - 1)

\* m * 10^e written without trailing zeros.
RECURSIVE Canonical(_, _, _)
Canonical(neg, m, e) ==
    IF m % 10 = 0 THEN Canonical(neg, m \div 10, e + 1)
    ELSE FloatV("finite", neg, m, e)

RECURSIVE Normalized(_, _, _)
Normalized(neg, m, e) ==
    IF m = 0 THEN FloatV("finite", neg, 0, 0)
    ELSE IF m % 10 = 0 THEN Normalized(neg, m \div 10, e + 1)
    ELSE LET adj == e + Digits(m) - 1
             lead == m * Pow10(9 - Digits(m))
         IN  IF adj > 308 \/ (adj = 308 /\ lead > 179769313)
             THEN FloatV("inf", neg, 0, 0)
             ELSE IF adj < -324 \/ (adj = -324 /\ lead <= 247032822)
             THEN FloatV("finite", neg, 0, 0)
             ELSE IF adj >= -315 THEN FloatV("finite", neg, m, e)
             ELSE LET r == Shortest(m, e, SubnormalIndex(m, e), adj + 1)
                  IN  Canonical(neg, r[1], r[2])

\* A JSON number at i: an int without fraction and exponent, else a float.
ScanNumber(s, i) ==
    LET neg == At(s, i) = "-"
        j == IF neg THEN i + 1 ELSE i
        intEnd == IF At(s, j) = "0" THEN j + 1 ELSE DigitsEnd(s, j)
        hasFrac == At(s, intEnd) = "." /\ IsDigit(At(s, intEnd + 1))
        fracEnd == IF hasFrac THEN DigitsEnd(s, intEnd + 1) ELSE intEnd
        k == IF At(s, fracEnd + 1) \in {"+", "-"}
             THEN fracEnd + 2 ELSE fracEnd + 1
        hasExp == At(s, fracEnd) \in {"e", "E"} /\ IsDigit(At(s, k))
        expEnd == IF hasExp THEN DigitsEnd(s, k) ELSE fracEnd
        digits == SubSeq(s, j, intEnd - 1)
                     \o (IF hasFrac THEN SubSeq(s, intEnd + 1, fracEnd - 1)
                         ELSE <<>>)
        exp == IF ~hasExp THEN 0
               ELSE IF At(s, fracEnd + 1) = "-"
               THEN 0 - ParseInt(SubSeq(s, k, expEnd - 1))
               ELSE ParseInt(SubSeq(s, k, expEnd - 1))
        scale == IF hasFrac THEN fracEnd - intEnd - 1 ELSE 0
    IN  IF ~IsDigit(At(s, j)) THEN NotScanned
        ELSE IF ~hasFrac /\ ~hasExp
        THEN Scanned(IntV(IF neg THEN 0 - ParseInt(digits)
                          ELSE ParseInt(digits)), intEnd)
        ELSE Scanned(Normalized(neg, ParseInt(digits), exp - scale), expEnd)


\* The character a one-letter escape stands for.
JsonEscapes == {QUOTE, BACKSLASH, "/", "b", "f", "n", "r", "t"}
JsonEscaped(c) ==
    CASE c = "b" -> CharOf(8)
      [] c = "f" -> "\f"
      [] c = "n" -> NL
      [] c = "r" -> "\r"
      [] c = "t" -> "\t"
      [] OTHER -> c

IsHex(c) ==
    \/ IsDigit(c)
    \/ c \in {"a", "b", "c", "d", "e", "f", "A", "B", "C", "D", "E", "F"}

HexOf(c) ==
    CASE IsDigit(c) -> DigitOf(c)
      [] c \in {"a", "A"} -> 10
      [] c \in {"b", "B"} -> 11
      [] c \in {"c", "C"} -> 12
      [] c \in {"d", "D"} -> 13
      [] c \in {"e", "E"} -> 14
      [] c \in {"f", "F"} -> 15

\* s holds four hexadecimal digits from i on, and their number.
IsHex4(s, i) == \A k \in i..(i + 3) : IsHex(At(s, k))
Hex4(s, i) ==
    4096 * HexOf(s[i]) + 256 * HexOf(s[i + 1]) + 16 * HexOf(s[i + 2])
        + HexOf(s[i + 3])

\* The characters json refuses inside a string: those below chr(32).
ControlChars == {CharOf(cp) : cp \in 0..31}

\* The characters of a JSON string whose opening quote is before i, added
\* to acc, and the index after its closing quote.
RECURSIVE ScanString(_, _, _)
ScanString(s, i, acc) ==
    LET c == At(s, i) IN
    IF c = "" \/ c \in ControlChars THEN NotScanned
    ELSE IF c = QUOTE THEN Scanned(acc, i + 1)
    ELSE IF c # BACKSLASH THEN ScanString(s, i + 1, Append(acc, c))
    ELSE IF At(s, i + 1) \in JsonEscapes
    THEN ScanString(s, i + 2, Append(acc, JsonEscaped(At(s, i + 1))))
    ELSE IF At(s, i + 1) # "u" \/ ~IsHex4(s, i + 2) THEN NotScanned
    ELSE LET uni == Hex4(s, i + 2)
             paired == /\ uni \in 55296..56319
                       /\ At(s, i + 6) = BACKSLASH
                       /\ At(s, i + 7) = "u"
         IN  IF ~paired
             THEN ScanString(s, i + 6, Append(acc, CharOf(uni)))
             ELSE IF ~IsHex4(s, i + 8) THEN NotScanned
             ELSE LET uni2 == Hex4(s, i + 8) IN
                  IF uni2 \in 56320..57343
                  THEN ScanString(s, i + 12,
                           Append(acc, CharOf(65536 + (uni - 55296) * 1024
                                                 + (uni2 - 56320))))
                  ELSE ScanString(s, i + 6, Append(acc, CharOf(uni)))

\* The key of a dict, as the field name of a record: the text of its
\* characters, a backslash doubled so that no two keys have the same text.
RECURSIVE KeyOf(_)
KeyOf(chars) ==
    IF chars = <<>> THEN ""
    ELSE (IF Head(chars) = BACKSLASH THEN "\\\\" ELSE Head(chars))
             \o KeyOf(Tail(chars))

\* dict(pairs): the last value given for a key is the value of the key.
DictOf(pairs) ==
    DictV([k \in {pairs[i][1] : i \in DOMAIN pairs} |->
              LET last == CHOOSE i \in DOMAIN pairs :
                              /\ pairs[i][1] = k
                              /\ \A j \in DOMAIN pairs :
                                    pairs[j][1] = k => j <= i
              IN  pairs[last][2]])

RECURSIVE ScanValue(_, _)
RECURSIVE ScanElements(_, _, _)
RECURSIVE ScanMembers(_, _, _)

\* The elements of an array from i on, after those of acc.
ScanElements(s, i, acc) ==
    LET r == ScanValue(s, i)
        j == SkipWs(s, r.next)
    IN  IF ~r.ok THEN NotScanned
        ELSE IF At(s, j) = "]" THEN Scanned(ListV(Append(acc, r.val)), j + 1)
        ELSE IF At(s, j) = ","
        THEN ScanElements(s, SkipWs(s, j + 1), Append(acc, r.val))
        ELSE NotScanned

\* The members of an object from i on, after those of acc.
ScanMembers(s, i, acc) ==
    IF At(s, i) # QUOTE THEN NotScanned
    ELSE LET key == ScanString(s, i + 1, <<>>)
             colon == SkipWs(s, key.next)
             r == ScanValue(s, SkipWs(s, colon + 1))
             j == SkipWs(s, r.next)
             pairs == Append(acc, <<KeyOf(key.val), r.val>>)
         IN  IF ~key.ok \/ At(s, colon) # ":" THEN NotScanned
             ELSE IF ~r.ok THEN NotScanned
             ELSE IF At(s, j) = "}" THEN Scanned(DictOf(pairs), j + 1)
             ELSE IF At(s, j) = ","
             THEN ScanMembers(s, SkipWs(s, j + 1), pairs)
             ELSE NotScanned

\* The JSON value at i.
ScanValue(s, i) ==
    LET c == At(s, i) IN
    IF c = QUOTE
    THEN LET r == ScanString(s, i + 1, <<>>)
         IN  IF r.ok THEN Scanned(StrV(r.val), r.next) ELSE NotScanned
    ELSE IF c = "{"
    THEN IF At(s, SkipWs(s, i + 1)) = "}"
         THEN Scanned(DictV(<<>>), SkipWs(s, i + 1) + 1)
         ELSE ScanMembers(s, SkipWs(s, i + 1), <<>>)
    ELSE IF c = "["
    THEN IF At(s, SkipWs(s, i + 1)) = "]"
         THEN Scanned(ListV(<<>>), SkipWs(s, i + 1) + 1)
         ELSE ScanElements(s, SkipWs(s, i + 1), <<>>)
    ELSE IF StartsAt(s, i, <<"n", "u", "l", "l">>)
    THEN Scanned(NoneV, i + 4)
    ELSE IF StartsAt(s, i, <<"t", "r", "u", "e">>)
    THEN Scanned(BoolV(TRUE), i + 4)
    ELSE IF StartsAt(s, i, <<"f", "a", "l", "s", "e">>)
    THEN Scanned(BoolV(FALSE), i + 5)
    ELSE IF ScanNumber(s, i).ok THEN ScanNumber(s, i)
    ELSE IF StartsAt(s, i, <<"N", "a", "N">>)
    THEN Scanned(FloatV("nan", FALSE, 0, 0), i + 3)
    ELSE IF StartsAt(s, i, <<"I", "n", "f", "i", "n", "i", "t", "y">>)
    THEN Scanned(FloatV("inf", FALSE, 0, 0), i + 8)
    ELSE IF StartsAt(s, i, <<"-", "I", "n", "f", "i", "n", "i", "t", "y">>)
    THEN Scanned(FloatV("inf", TRUE, 0, 0), i + 9)
    ELSE NotScanned

\* json.loads(text): one value between whitespace, and nothing else.
JsonLoads(text) ==
    LET r == ScanValue(text, SkipWs(text, 1)) IN
    IF r.ok /\ SkipWs(text, r.next) = Len(text) + 1
    THEN [ok |-> TRUE, data |-> r.val]
    ELSE [ok |-> FALSE, data |-> NoneV]

(***************************************************************************)
(* The language-server collaborator (qtmonaco.pylsp_provider) and          *)
(* get_pylsp_host.  The server is [running, port, starts, bind]; bind is   *)
(* the port its next start binds.                                          *)
(***************************************************************************)
pylsp_is_running(srv) == srv.running

pylsp_start(srv) ==
    [srv EXCEPT !.running = TRUE, !.port = srv.bind, !.starts = @ + 1]

Localhost == <<"l", "o", "c", "a", "l", "h", "o", "s", "t", ":">>

\* The server after the call and the host string returned.
get_pylsp_host(srv) ==
    LET after == IF ~pylsp_is_running(srv) THEN pylsp_start(srv) ELSE srv
    IN  [server |-> after, host |-> StrV(Localhost \o IntToStr(after.port))]

(***************************************************************************)
(* The names of the class Monaco: the methods it defines, its signals, its *)
(* two properties (bridge_initialized with a setter, current_cursor        *)
(* without), the methods of QWebEngineView that Monaco calls, and the      *)
(* attributes every class has from object.  The fields are the attributes  *)
(* __init__ gives the instance.  The other members Monaco inherits from    *)
(* QWebEngineView are no names of the model.                               *)
(***************************************************************************)
MethodNames ==
    {"__init__", "_load_editor", "_set_host", "on_new_data_received",
     "on_value_changed", "_current_text", "set_text", "get_text",
     "insert_text", "delete_line", "get_language", "set_language",
     "set_minimap_enabled", "get_theme", "set_theme", "set_readonly",
     "set_cursor", "set_highlighted_lines", "clear_highlighted_lines",
     "set_vim_mode_enabled", "set_lsp_header", "get_lsp_header"}
SignalNames ==
    {"initialized", "text_changed", "language_changed", "theme_changed"}
\* setPage(page), page() and setHtml(html, baseUrl), called by __init__ and
\* _load_editor.
InheritedNames == {"setPage", "page", "setHtml"}
PropertyNames == {"bridge_initialized", "current_cursor"}
FieldNames ==
    {"pylsp_host", "_connector", "_value", "_language", "_theme", "_readonly",
     "_current_cursor", "_initialized", "_lsp_header", "_buffer", "_channel"}

\* The methods of object (__getstate__ from Python 3.11 on), and the
\* attributes of the class that are no methods.  __class__ and __dict__ are
\* looked up before the attributes of the instance, the others after them.
ObjectMethodNames ==
    {"__delattr__", "__dir__", "__eq__", "__format__", "__ge__",
     "__getattribute__", "__getstate__", "__gt__", "__hash__",
     "__init_subclass__", "__le__", "__lt__", "__ne__", "__new__",
     "__reduce__", "__reduce_ex__", "__repr__", "__setattr__", "__sizeof__",
     "__str__", "__subclasshook__"}
ClassNames ==
    MethodNames \cup SignalNames \cup InheritedNames \cup ObjectMethodNames
        \cup {"__doc__", "__module__"}

(***************************************************************************)
(* The object.  dict is the dictionary of the instance, from the names of  *)
(* its attributes to their values; sent is the sequence of commands handed *)
(* to the connector, emitted the sequence of Qt signals raised, printed    *)
(* the number of warnings printed, slots the number of slots connected to  *)
(* the signal initialized, and server the language server.  A variable of  *)
(* a field holds Absent when the instance has no such attribute, and       *)
(* extras holds the attributes of the instance that are no fields.  The    *)
(* variable calls is the history of the calls made on the object, each     *)
(* with its arguments and the exception it raised.                         *)
(***************************************************************************)
Absent == [t |-> "absent", v |-> <<>>]

Fields ==
    [pylsp_host |-> pylsp_host, _connector |-> connector, _value |-> value,
     _language |-> language, _theme |-> theme, _readonly |-> readonly,
     _current_cursor |-> current_cursor, _initialized |-> initialized,
     _lsp_header |-> lsp_header, _buffer |-> buffer, _channel |-> channel]

Present == {n \in FieldNames : Fields[n] # Absent}

Self ==
    [dict |-> [n \in Present |-> Fields[n]] @@ extras,
     sent |-> outbound, emitted |-> signals, printed |-> warnings,
     slots |-> slots, server |-> server, made |-> TRUE, qt |-> "again"]

\* The object before __init__ has run.
Blank(srv) ==
    [dict |-> <<>>, sent |-> <<>>, emitted |-> <<>>, printed |-> 0,
     slots |-> 0, server |-> srv, made |-> FALSE, qt |-> "again"]

\* The Connector and the QWebChannel made by Monaco.__init__.
ConnectorV == [t |-> "Connector", v |-> <<>>]
WebChannelV == [t |-> "QWebChannel", v |-> <<>>]

\* A call that returns normally, one that returns the value v, and one
\* that raises exc.
Return(self) == [self |-> self, raised |-> "None"]
ReturnValue(self, v) == [self |-> self, raised |-> "None", value |-> v]
Raise(self, exc) == [self |-> self, raised |-> exc]

\* The call r and the statements after it, whose outcome is after: they
\* run when r has not raised.
Then(r, after) == IF r.raised = "None" THEN after ELSE r

ReadOnlyError == "ValueError: read-only"
ColumnError == "ValueError: column"

\* The attributes of the instance: self.name is read, assigned, deleted.
Has(self, name) == name \in DOMAIN self.dict
Get(self, name) == self.dict[name]
GetOr(self, name) == IF Has(self, name) THEN Get(self, name) ELSE Absent
Set(self, name, v) == [self EXCEPT !.dict = (name :> v) @@ @]
Del(self, name) ==
    [self EXCEPT !.dict = [n \in DOMAIN @ \ {name} |-> @[n]]]

\* self.name(...) for a method or a signal of the class: an attribute of
\* the instance with that name is found first, and calling it raises
\* TypeError; else the call is r.
Method(self, name, r) ==
    IF Has(self, name) THEN Raise(self, "TypeError") ELSE r

\* self._connector.send(name, payload): the command joins the outbound
\* sequence; a value put in place of the connector has no send.
connector_send(self, name, payload) ==
    IF GetOr(self, "_connector") = ConnectorV
    THEN Return([self EXCEPT
                    !.sent = Append(@, [name |-> name, payload |-> payload])])
    ELSE Raise(self, "AttributeError")

\* self.sig.emit(arg), without the slots connected to the signal; a value
\* of the instance found in place of the signal has no emit.
emit(self, sig, arg) ==
    IF Has(self, sig) THEN Raise(self, "AttributeError")
    ELSE Return([self EXCEPT
                    !.emitted = Append(@, [sig |-> sig, arg |-> arg])])

\* Monaco._set_host
_set_host(self, host) ==
    Method(self, "_set_host", connector_send(self, "lsp_url", host))

\* Monaco._load_editor: the page is loaded with setHtml; no attribute of
\* the bridge changes.
_load_editor(self) ==
    Method(self, "_load_editor", Method(self, "setHtml", Return(self)))

\* The first n slots of the signal initialized, one after the other; each
\* is the slot connected in __init__, lambda: self._set_host(self.pylsp_host).
RECURSIVE run_slots(_, _)
run_slots(self, n) ==
    IF n = 0 THEN Return(self)
    ELSE LET initialized_slot(obj) ==
                 IF ~Has(obj, "pylsp_host") THEN Raise(obj, "AttributeError")
                 ELSE _set_host(obj, Get(obj, "pylsp_host"))
             done == run_slots(self, n - 1)
         IN  Then(done, initialized_slot(done.self))

\* self.initialized.emit(): the slots run in the emit, and what one raises
\* reaches the caller of emit.
emit_initialized(self) ==
    LET done == emit(self, "initialized", NoneV)
    IN  Then(done, run_slots(done.self, done.self.slots))

\* Monaco.__init__(parent).  QWebEngineView.__init__ takes a widget or None
\* for parent.  The statements after it run in their order: an attribute
\* of the instance found in place of setPage, page, on_new_data_received or
\* _load_editor, or of the signal initialized, stops them.
__init__(self, parent) ==
    IF parent # NoneV THEN Raise(self, "TypeError")
    ELSE IF self.made /\ self.qt = "raises" THEN Raise(self, "RuntimeError")
    ELSE LET h == get_pylsp_host(self.server)
             InitialFields ==
                 [pylsp_host |-> h.host, _connector |-> ConnectorV,
                  _value |-> StrV(<<>>), _language |-> StrV(<<>>),
                  _theme |-> StrV(<<>>), _readonly |-> BoolV(FALSE),
                  _current_cursor |->
                      DictV([line |-> IntV(1), column |-> IntV(1)]),
                  _initialized |-> BoolV(FALSE), _lsp_header |-> StrV(<<>>),
                  _buffer |-> ListV(<<>>)]
             assigned == [self EXCEPT !.server = h.server, !.made = TRUE,
                                      !.dict = InitialFields @@ @]
             paged == Set(assigned, "_channel", WebChannelV)
             connected ==
                 [paged EXCEPT !.slots = IF self.made /\ self.qt = "again"
                                         THEN @ + 1 ELSE 1]
         IN  IF Has(assigned, "setPage") THEN Raise(assigned, "TypeError")
             ELSE IF Has(paged, "page") THEN Raise(paged, "TypeError")
             ELSE IF Has(paged, "on_new_data_received")
             THEN Raise(paged, "TypeError")
             ELSE IF Has(paged, "initialized")
             THEN Raise(paged, "AttributeError")
             ELSE _load_editor(connected)

\* The setter without the comparison with the current value.
set_bridge_initialized_always(self, v) ==
    IF ~Has(self, "_initialized") THEN Raise(self, "AttributeError")
    ELSE emit_initialized(Set(self, "_initialized", v))

\* The bridge_initialized property and its setter.
bridge_initialized(self) == GetOr(self, "_initialized")

set_bridge_initialized(self, v) ==
    IF ~Has(self, "_initialized") THEN Raise(self, "AttributeError")
    ELSE IF ~PyEq(Get(self, "_initialized"), v)
    THEN emit_initialized(Set(self, "_initialized", v))
    ELSE Return(self)

\* Monaco._current_text
_current_text(self, v) ==
    Method(self, "_current_text",
        IF ~Has(self, "_value") THEN Raise(self, "AttributeError")
        ELSE IF PyEq(Get(self, "_value"), v) THEN Return(self)
        ELSE emit(Set(self, "_value", v), "text_changed", v))

\* on_value_changed that leaves the mirror of a read-only editor alone.
on_value_changed_guarded(self, v) ==
    Method(self, "on_value_changed",
        IF ~Has(self, "_readonly") THEN Raise(self, "AttributeError")
        ELSE IF Truthy(Get(self, "_readonly")) THEN Return(self)
        ELSE _current_text(self, v))

\* Monaco.on_value_changed
on_value_changed(self, v) ==
    Method(self, "on_value_changed", _current_text(self, v))

(***************************************************************************)
(* Public API methods.  Reading an attribute the instance does not have    *)
(* raises AttributeError.                                                  *)
(***************************************************************************)
\* The statements of set_text from the assignment on.
set_text_send(self, v) ==
    LET done == connector_send(Set(self, "_value", v), "set_text", v)
    IN  Then(done, emit(done.self, "text_changed", v))

\* set_text without the read-only guard.
set_text_unguarded(self, v) ==
    Method(self, "set_text",
        IF ~Has(self, "_value") THEN Raise(self, "AttributeError")
        ELSE IF PyEq(Get(self, "_value"), v) THEN Return(self)
        ELSE IF ~IsStr(v) THEN Raise(self, "TypeError")
        ELSE set_text_send(self, v))

set_text(self, v) ==
    Method(self, "set_text",
        IF ~Has(self, "_value") THEN Raise(self, "AttributeError")
        ELSE IF PyEq(Get(self, "_value"), v) THEN Return(self)
        ELSE IF ~Has(self, "_readonly") THEN Raise(self, "AttributeError")
        ELSE IF Truthy(Get(self, "_readonly"))
        THEN Raise(self, ReadOnlyError)
        ELSE IF ~IsStr(v) THEN Raise(self, "TypeError")
        ELSE set_text_send(self, v))

get_text(self) ==
    Method(self, "get_text",
        IF ~Has(self, "_value") THEN Raise(self, "AttributeError")
        ELSE ReturnValue(self, Get(self, "_value")))

insert_payload(text, line, column) ==
    DictV([text |-> text, line |-> line, column |-> column])

\* insert_text that sends the command before it checks the column.
insert_text_send_first(self, text, line, column) ==
    Method(self, "insert_text",
        IF ~Has(self, "_readonly") THEN Raise(self, "AttributeError")
        ELSE IF Truthy(Get(self, "_readonly"))
        THEN Raise(self, ReadOnlyError)
        ELSE IF ~IsStr(text) THEN Raise(self, "TypeError")
        ELSE IF line # NoneV /\ column = NoneV
        THEN connector_send(self, "insert",
                            insert_payload(text, line, IntV(1)))
        ELSE IF column # NoneV /\ line = NoneV
        THEN LET done == connector_send(self, "insert",
                                        insert_payload(text, line, column))
             IN  Then(done, Raise(done.self, ColumnError))
        ELSE connector_send(self, "insert",
                            insert_payload(text, line, column)))

insert_text(self, text, line, column) ==
    Method(self, "insert_text",
        IF ~Has(self, "_readonly") THEN Raise(self, "AttributeError")
        ELSE IF Truthy(Get(self, "_readonly"))
        THEN Raise(self, ReadOnlyError)
        ELSE IF ~IsStr(text) THEN Raise(self, "TypeError")
        ELSE IF line # NoneV /\ column = NoneV
        THEN connector_send(self, "insert",
                            insert_payload(text, line, IntV(1)))
        ELSE IF column # NoneV /\ line = NoneV THEN Raise(self, ColumnError)
        ELSE connector_send(self, "insert",
                            insert_payload(text, line, column)))

\* The payload of delete_line: the line, or "current" for None.
delete_payload(line) ==
    IF line # NoneV THEN line ELSE StrV(<<"c", "u", "r", "r", "e", "n", "t">>)

\* delete_line without the read-only guard.
delete_line_unguarded(self, line) ==
    Method(self, "delete_line",
        connector_send(self, "delete_line", delete_payload(line)))

\* delete_line that sends the line as given, None included.
delete_line_no_sentinel(self, line) ==
    Method(self, "delete_line",
        IF ~Has(self, "_readonly") THEN Raise(self, "AttributeError")
        ELSE IF Truthy(Get(self, "_readonly"))
        THEN Raise(self, ReadOnlyError)
        ELSE connector_send(self, "delete_line", line))

delete_line(self, line) ==
    Method(self, "delete_line",
        IF ~Has(self, "_readonly") THEN Raise(self, "AttributeError")
        ELSE IF Truthy(Get(self, "_readonly"))
        THEN Raise(self, ReadOnlyError)
        ELSE connector_send(self, "delete_line", delete_payload(line)))

get_language(self) ==
    Method(self, "get_language",
        IF ~Has(self, "_language") THEN Raise(self, "AttributeError")
        ELSE ReturnValue(self, Get(self, "_language")))

set_language(self, l) ==
    Method(self, "set_language",
        LET done == connector_send(Set(self, "_language", l), "language", l)
        IN  Then(done, emit(done.self, "language_changed", l)))

set_minimap_enabled(self, enabled) ==
    Method(self, "set_minimap_enabled",
        connector_send(self, "minimap", enabled))

get_theme(self) ==
    Method(self, "get_theme",
        IF ~Has(self, "_theme") THEN Raise(self, "AttributeError")
        ELSE ReturnValue(self, Get(self, "_theme")))

set_theme(self, th) ==
    Method(self, "set_theme",
        LET done == connector_send(Set(self, "_theme", th), "theme", th)
        IN  Then(done, emit(done.self, "theme_changed", th)))

set_readonly(self, read_only) ==
    Method(self, "set_readonly",
        LET done == connector_send(self, "readonly", read_only)
        IN  Then(done, Return(Set(done.self, "_readonly", read_only))))

cursor_payload(line, column, move_to_position) ==
    DictV([line |-> line, column |-> column,
           moveToPosition |-> move_to_position])

\* set_cursor that also stores the position in the cursor mirror.
set_cursor_mirrored(self, line, column, move_to_position) ==
    Method(self, "set_cursor",
        connector_send(
            Set(self, "_current_cursor",
                DictV([line |-> line, column |-> column])),
            "set_cursor", cursor_payload(line, column, move_to_position)))

set_cursor(self, line, column, move_to_position) ==
    Method(self, "set_cursor",
        connector_send(self, "set_cursor",
                       cursor_payload(line, column, move_to_position)))

\* The current_cursor property.
current_cursor_property(self) == GetOr(self, "_current_cursor")

set_highlighted_lines(self, start_line, end_line) ==
    Method(self, "set_highlighted_lines",
        connector_send(self, "highlight_lines",
                       DictV([start |-> start_line, end |-> end_line])))

clear_highlighted_lines(self) ==
    Method(self, "clear_highlighted_lines",
        connector_send(self, "remove_highlight", DictV(<<>>)))

set_vim_mode_enabled(self, enabled) ==
    Method(self, "set_vim_mode_enabled",
        connector_send(self, "vim_mode", enabled))

\* The header set_lsp_header stores and sends for the string h.
normalize_header(h) ==
    LET stripped == Strip(h)
    IN  IF ~EndsWith(stripped, NL) THEN stripped \o <<NL>> ELSE stripped

set_lsp_header(self, header) ==
    Method(self, "set_lsp_header",
        IF ~IsStr(header) THEN Raise(self, "TypeError")
        ELSE LET h == StrV(normalize_header(header.v))
             IN  connector_send(Set(self, "_lsp_header", h),
                                "set_lsp_header", h))

get_lsp_header(self) ==
    Method(self, "get_lsp_header",
        IF ~Has(self, "_lsp_header") THEN Raise(self, "AttributeError")
        ELSE ReturnValue(self, Get(self, "_lsp_header")))

(***************************************************************************)
(* The dispatcher, on_new_data_received(name, value).                      *)
(***************************************************************************)
\* hasattr(self, name): a property is found when its getter finds the field
\* it reads; any other name is found on the instance or on the class.
HasAttr(self, name) ==
    CASE name = "bridge_initialized" -> Has(self, "_initialized")
      [] name = "current_cursor" -> Has(self, "_current_cursor")
      [] OTHER -> name \in (DOMAIN self.dict) \cup ClassNames
                              \cup {"__class__", "__dict__"}

\* callable(getattr(self, name)): the class, and a method or a signal of the
\* class that no attribute of the instance hides; a bound signal is
\* callable, and calling it raises TypeError.  No value of a property or of
\* the instance is callable.
IsCallable(self, name) ==
    \/ name = "__class__"
    \/ /\ name \in ClassNames \ {"__doc__", "__module__"}
       /\ ~Has(self, name)

\* object.__delattr__(self, data)
delete_attribute(self, data) ==
    IF ~IsStr(data) THEN Raise(self, "TypeError")
    ELSE LET name == KeyOf(data.v) IN
         CASE name \in PropertyNames -> Raise(self, "AttributeError")
           [] name = "__class__" -> Raise(self, "TypeError")
           [] name = "__dict__" -> Return([self EXCEPT !.dict = <<>>])
           [] OTHER -> IF Has(self, name) THEN Return(Del(self, name))
                       ELSE Raise(self, "AttributeError")

\* object.__getattribute__(self, data)
get_attribute(self, data) ==
    IF ~IsStr(data) THEN Raise(self, "TypeError")
    ELSE IF HasAttr(self, KeyOf(data.v)) THEN Return(self)
    ELSE Raise(self, "AttributeError")

\* method(data), for the method called name: data is its first argument
\* and its other arguments take their defaults.  Monaco(data) makes another
\* bridge, of which the server only is part of the model.
call_method(self, name, data) ==
    CASE name = "__init__" -> __init__(self, data)
      [] name = "__class__" ->
            LET other == __init__(Blank(self.server), data)
            IN  [self |-> [self EXCEPT !.server = other.self.server],
                 raised |-> other.raised]
      [] name = "_set_host" -> _set_host(self, data)
      [] name = "on_value_changed" -> on_value_changed(self, data)
      [] name = "_current_text" -> _current_text(self, data)
      [] name = "set_text" -> set_text(self, data)
      [] name = "insert_text" -> insert_text(self, data, NoneV, NoneV)
      [] name = "delete_line" -> delete_line(self, data)
      [] name = "set_language" -> set_language(self, data)
      [] name = "set_minimap_enabled" -> set_minimap_enabled(self, data)
      [] name = "set_theme" -> set_theme(self, data)
      [] name = "set_readonly" -> set_readonly(self, data)
      [] name = "set_cursor" -> set_cursor(self, data, IntV(1), NoneV)
      [] name = "set_vim_mode_enabled" -> set_vim_mode_enabled(self, data)
      [] name = "set_lsp_header" -> set_lsp_header(self, data)
      [] name = "setHtml" /\ IsStr(data) -> Return(self)
      [] name = "setPage" /\ data = NoneV -> Return(self)
      [] name = "__delattr__" -> delete_attribute(self, data)
      [] name = "__getattribute__" -> get_attribute(self, data)
      [] name \in {"__eq__", "__ne__", "__lt__", "__le__", "__gt__",
                   "__ge__", "__subclasshook__"} -> Return(self)
      [] name = "__format__" /\ data = StrV(<<>>) -> Return(self)
      [] name = "__reduce_ex__" /\ data.t \in {"int", "bool"} -> Return(self)
      [] OTHER -> Raise(self, "TypeError")

\* setattr(self, name, data): a property is set by its setter, __dict__
\* takes a dict and nothing else, and any other name becomes an attribute
\* of the instance.
setattr(self, name, data) ==
    CASE name = "bridge_initialized" -> set_bridge_initialized(self, data)
      [] name = "current_cursor" -> Raise(self, "AttributeError")
      [] name = "__dict__" ->
            IF data.t = "dict" THEN Return([self EXCEPT !.dict = data.v])
            ELSE Raise(self, "TypeError")
      [] OTHER -> Return(Set(self, name, data))

\* print(f"Warning: ...")
print_warning(self) == [self EXCEPT !.printed = @ + 1]

\* on_new_data_received that looks the name up without hasattr.
on_new_data_received_getattr(self, name, text) ==
    LET parsed == JsonLoads(text) IN
    IF ~parsed.ok THEN Raise(self, "JSONDecodeError")
    ELSE IF ~HasAttr(self, name) THEN Raise(self, "AttributeError")
    ELSE IF IsCallable(self, name) THEN call_method(self, name, parsed.data)
    ELSE setattr(self, name, parsed.data)

\* Monaco.on_new_data_received, as the connector calls it: the signal of
\* the connector holds the method bound in __init__.
on_new_data_received(self, name, text) ==
    LET parsed == JsonLoads(text) IN
    IF ~parsed.ok THEN Raise(self, "JSONDecodeError")
    ELSE IF HasAttr(self, name)
    THEN IF IsCallable(self, name) THEN call_method(self, name, parsed.data)
         ELSE setattr(self, name, parsed.data)
    ELSE Return(print_warning(self))

(***************************************************************************)
(* Inputs.                                                                 *)
(***************************************************************************)
\* Arguments of set_text: strings, and a value that is no string.
TextArgs == {StrV(<<>>), StrV(<<"a">>), StrV(<<"a", NL, "b">>), IntV(7)}

InsertTexts == {StrV(<<"x">>), IntV(7)}
LineArgs == {NoneV, IntV(2)}
ColumnArgs == {NoneV, IntV(1), IntV(3)}
Languages == {StrV(<<"p", "y">>), StrV(<<"j", "s">>)}
Themes == {StrV(<<"v", "s">>), StrV(<<"h", "c">>)}
Bools == {BoolV(TRUE), BoolV(FALSE)}
MoveArgs == {NoneV, StrV(<<"t", "o", "p">>)}

\* Raw headers, with and without whitespace at either end (a form feed and
\* a no-break space are whitespace), and a value that is no string.
RawHeaders ==
    {<<>>, <<NL>>, <<SP, "\t">>, <<"a">>, <<"a", NL>>, <<"a", NL, NL>>,
     <<"a", SP>>, <<SP, "a">>, <<NL, "a", NL, SP>>, <<"a", SP, "b">>,
     <<"a", NL, "b", NL>>, <<"a", "\r", NL>>, <<"a", "\f">>,
     <<CharOf(160), "a">>}
HeaderArgs == {StrV(h) : h \in RawHeaders} \cup {NoneV}

\* Raw values of inbound events: strings, booleans, a number, a cursor
\* position, null, a list, and two texts that are not JSON.
Texts ==
    [a |-> <<QUOTE, "a", QUOTE>>,
     empty |-> <<QUOTE, QUOTE>>,
     lines |-> <<QUOTE, "a", BACKSLASH, "n", "b", QUOTE>>,
     true |-> <<"t", "r", "u", "e">>,
     false |-> <<"f", "a", "l", "s", "e">>,
     one |-> <<SP, "1">>,
     null |-> <<"n", "u", "l", "l">>,
     list |-> <<"[", "]">>,
     cursor |-> <<"{", QUOTE, "l", "i", "n", "e", QUOTE, ":", SP, "2", ",",
             SP, QUOTE, "c", "o", "l", "u", "m", "n", QUOTE, ":", SP, "5",
             "}">>,
     emptyDict |-> <<"{", "}">>,
     shadow |-> <<"{", QUOTE, "s", "e", "t", "_", "t", "e", "x", "t",
             QUOTE, ":", SP, "1", "}">>,
     getter |-> <<"{", QUOTE, "g", "e", "t", "_", "t", "e", "x", "t",
             QUOTE, ":", SP, "1", ",", SP, QUOTE, "_", "v", "a", "l", "u",
             "e", QUOTE, ":", SP, QUOTE, "a", QUOTE, "}">>,
     valueName |-> <<QUOTE, "_", "v", "a", "l", "u", "e", QUOTE>>,
     hostName |-> <<QUOTE, "p", "y", "l", "s", "p", "_", "h", "o", "s",
             "t", QUOTE>>,
     open |-> <<"{">>,
     unclosed |-> <<QUOTE, "a">>]

\* The names an event can carry: the names of the class and of the fields,
\* and a name the bridge does not have.
EventNames ==
    ClassNames \cup {"__class__", "__dict__"} \cup PropertyNames
        \cup FieldNames \cup {"no_such_member"}

\* The values an event called name carries when its text is JSON: a value
\* of the type the member holds or its first parameter declares, any value
\* for a name the bridge does not have, and for a connector or a web
\* channel a value that is none, no JSON text being one.
TypedTexts(name) ==
    CASE name = "on_value_changed" -> {Texts.a, Texts.empty, Texts.lines}
      [] name = "_connector" -> {Texts.a, Texts.null}
      [] name \in {"__init__", "__class__"} -> {Texts.null}
      [] name = "__dict__" ->
            {Texts.emptyDict, Texts.cursor, Texts.shadow, Texts.getter}
      [] name = "__delattr__" -> {Texts.valueName, Texts.hostName}
      [] name = "__getattribute__" -> {Texts.valueName}
      [] name = "__format__" -> {Texts.empty}
      [] name = "__reduce_ex__" -> {Texts.one}
      [] name = "_value" -> {Texts.a, Texts.empty}
      [] name \in {"bridge_initialized", "_initialized", "_readonly",
                   "set_readonly"} -> {Texts.true, Texts.false}
      [] name \in {"set_minimap_enabled", "set_vim_mode_enabled"} ->
            {Texts.true}
      [] name \in {"current_cursor", "_current_cursor"} -> {Texts.cursor}
      [] name \in {"delete_line"} -> {Texts.one, Texts.null}
      [] name \in {"set_cursor", "set_highlighted_lines"} -> {Texts.one}
      [] name = "_buffer" -> {Texts.list}
      [] name \in {"_load_editor", "get_text", "get_language", "get_theme",
                   "get_lsp_header", "clear_highlighted_lines",
                   "initialized", "page"} -> {Texts.null}
      [] name = "no_such_member" ->
            {Texts.a, Texts.true, Texts.one, Texts.cursor}
      [] OTHER -> {Texts.a}

\* The events the remote side can send.
Events ==
    UNION {{<<name, text>> :
               text \in TypedTexts(name) \cup
                   (IF name \in {"on_value_changed", "bridge_initialized",
                                 "current_cursor", "_value", "no_such_member"}
                    THEN {Texts.open, Texts.unclosed} ELSE {})} :
           name \in EventNames}

\* What the binding does for the event e.  What QWebEngineView.__init__
\* does on an object that is initialized is the binding's: it raises, or it
\* returns with the connections of the signals kept ("again") or lost
\* ("anew").
QtChoices(e) ==
    IF e[1] = "__init__" THEN {"raises", "again", "anew"} ELSE {"again"}

\* The ports a language server can be bound to.
Ports == {2087, 2088}

(***************************************************************************)
(* The state after Monaco(): the server was running on its default port,   *)
(* or get_pylsp_host started it there.                                     *)
(***************************************************************************)
ServersBefore ==
    {[running |-> TRUE, port |-> 2087, starts |-> 1, bind |-> 2087],
     [running |-> FALSE, port |-> 0, starts |-> 0, bind |-> 2087]}

\* The remote editor before its page has loaded: dropped is the number of
\* commands sent before its script listened.
NewRemote ==
    [loaded |-> FALSE, dropped |-> 0, text |-> <<>>, readonly |-> FALSE,
     cursor |-> [line |-> 1, column |-> 1], edits |-> 0]

\* The call r of method op with arguments arg becomes the next state of the
\* object.
\* The attributes of the object m that are no fields.
Extras(m) == [n \in (DOMAIN m.dict) \ FieldNames |-> m.dict[n]]

Apply(op, arg, r) ==
    /\ value' = GetOr(r.self, "_value")
    /\ language' = GetOr(r.self, "_language")
    /\ theme' = GetOr(r.self, "_theme")
    /\ readonly' = GetOr(r.self, "_readonly")
    /\ current_cursor' = GetOr(r.self, "_current_cursor")
    /\ initialized' = GetOr(r.self, "_initialized")
    /\ lsp_header' = GetOr(r.self, "_lsp_header")
    /\ pylsp_host' = GetOr(r.self, "pylsp_host")
    /\ connector' = GetOr(r.self, "_connector")
    /\ channel' = GetOr(r.self, "_channel")
    /\ buffer' = GetOr(r.self, "_buffer")
    /\ extras' = Extras(r.self)
    /\ slots' = r.self.slots
    /\ outbound' = r.self.sent
    /\ signals' = r.self.emitted
    /\ warnings' = r.self.printed
    /\ server' = r.self.server
    /\ calls' = Append(calls, [op |-> op, arg |-> arg, raised |-> r.raised])

\* A call made on the bridge alone: the remote side stands by.
Call(op, arg, r) ==
    /\ Len(calls) <= MaxSteps
    /\ Apply(op, arg, r)
    /\ UNCHANGED <<remote, delivered, inbound>>

Init ==
    \E srv \in ServersBefore :
        LET m == __init__(Blank(srv), NoneV).self
        IN  /\ value = GetOr(m, "_value")
            /\ language = GetOr(m, "_language")
            /\ theme = GetOr(m, "_theme")
            /\ readonly = GetOr(m, "_readonly")
            /\ current_cursor = GetOr(m, "_current_cursor")
            /\ initialized = GetOr(m, "_initialized")
            /\ lsp_header = GetOr(m, "_lsp_header")
            /\ pylsp_host = GetOr(m, "pylsp_host")
            /\ connector = GetOr(m, "_connector")
            /\ channel = GetOr(m, "_channel")
            /\ buffer = GetOr(m, "_buffer")
            /\ extras = Extras(m)
            /\ slots = m.slots
            /\ outbound = m.sent
            /\ signals = m.emitted
            /\ warnings = m.printed
            /\ server = m.server
            /\ calls = <<[op |-> "__init__", arg |-> NoneV, raised |-> "None"]>>
            /\ remote = NewRemote
            /\ delivered = 0
            /\ inbound = <<>>

SetText == \E v \in TextArgs : Call("set_text", v, set_text(Self, v))

InsertText ==
    \E text \in InsertTexts, line \in LineArgs, column \in ColumnArgs :
        Call("insert_text", insert_payload(text, line, column),
             insert_text(Self, text, line, column))

DeleteLine ==
    \E line \in LineArgs : Call("delete_line", line, delete_line(Self, line))

SetLanguage ==
    \E l \in Languages : Call("set_language", l, set_language(Self, l))

SetMinimapEnabled ==
    \E b \in Bools :
        Call("set_minimap_enabled", b, set_minimap_enabled(Self, b))

SetTheme == \E th \in Themes : Call("set_theme", th, set_theme(Self, th))

SetReadonly == \E b \in Bools : Call("set_readonly", b, set_readonly(Self, b))

SetCursor ==
    \E line \in {IntV(3)}, column \in {IntV(1)}, move \in MoveArgs :
        Call("set_cursor",
             DictV([line |-> line, column |-> column, moveToPosition |-> move]),
             set_cursor(Self, line, column, move))

SetHighlightedLines ==
    Call("set_highlighted_lines",
         DictV([start |-> IntV(1), end |-> IntV(2)]),
         set_highlighted_lines(Self, IntV(1), IntV(2)))

ClearHighlightedLines ==
    Call("clear_highlighted_lines", NoneV, clear_highlighted_lines(Self))

SetVimModeEnabled ==
    \E b \in Bools :
        Call("set_vim_mode_enabled", b, set_vim_mode_enabled(Self, b))

SetLspHeader ==
    \E h \in HeaderArgs : Call("set_lsp_header", h, set_lsp_header(Self, h))

\* The connector delivers an inbound event to on_new_data_received.
Receive ==
    \E e \in Events :
        \E qt \in QtChoices(e) :
            Call("on_new_data_received",
                 DictV([name |-> e[1], value |-> StrV(e[2])]),
                 on_new_data_received([Self EXCEPT !.qt = qt], e[1], e[2]))

Next ==
    \/ SetText
    \/ InsertText
    \/ DeleteLine
    \/ SetLanguage
    \/ SetMinimapEnabled
    \/ SetTheme
    \/ SetReadonly
    \/ SetCursor
    \/ SetHighlightedLines
    \/ ClearHighlightedLines
    \/ SetVimModeEnabled
    \/ SetLspHeader
    \/ Receive

Spec == Init /\ [][Next]_vars

(***************************************************************************)
(* The bridge with the remote editor.  The connector delivers the          *)
(* commands in the order sent and the events in the order emitted.  The    *)
(* editor keeps a text, a read-only option and a cursor; it emits          *)
(* on_value_changed with its whole text after every change of the text.    *)
(***************************************************************************)
\* json.dumps of a string, as the remote side encodes an event value.
RECURSIVE JsonEscape(_)
JsonEscape(s) ==
    IF s = <<>> THEN <<>>
    ELSE (CASE Head(s) = NL -> <<BACKSLASH, "n">>
            [] Head(s) = "\t" -> <<BACKSLASH, "t">>
            [] Head(s) = "\r" -> <<BACKSLASH, "r">>
            [] Head(s) \in {QUOTE, BACKSLASH} -> <<BACKSLASH, Head(s)>>
            [] OTHER -> <<Head(s)>>) \o JsonEscape(Tail(s))

JsonDumps(s) == <<QUOTE>> \o JsonEscape(s) \o <<QUOTE>>

\* The lines of a text, and the text of some lines.
RECURSIVE SplitLines(_)
SplitLines(s) ==
    IF \A i \in DOMAIN s : s[i] # NL THEN <<s>>
    ELSE LET i == CHOOSE k \in DOMAIN s :
                      s[k] = NL /\ \A j \in 1..(k - 1) : s[j] # NL
         IN  <<SubSeq(s, 1, i - 1)>> \o SplitLines(SubSeq(s, i + 1, Len(s)))

RECURSIVE JoinLines(_)
JoinLines(ls) ==
    IF Len(ls) = 1 THEN ls[1] ELSE ls[1] \o <<NL>> \o JoinLines(Tail(ls))

Clamp(n, lo, hi) == IF n < lo THEN lo ELSE IF n > hi THEN hi ELSE n

\* The editor inserts text at a position, without a line at its cursor.  A
\* position outside the text is moved into it: a line after the last one
\* to the end of the text, a column after the end of its line to that end.
remote_insert(r, p) ==
    LET ls == SplitLines(r.text)
        at == IF p.line = NoneV THEN r.cursor
              ELSE [line |-> p.line.v, column |-> p.column.v]
        ln == Clamp(at.line, 1, Len(ls))
        col == IF at.line > Len(ls) THEN Len(ls[ln]) + 1
               ELSE Clamp(at.column, 1, Len(ls[ln]) + 1)
        new == SubSeq(ls[ln], 1, col - 1) \o p.text.v
                  \o SubSeq(ls[ln], col, Len(ls[ln]))
    IN  [r EXCEPT !.text = JoinLines([ls EXCEPT ![ln] = new])]

\* The editor empties a line, "current" being the line of its cursor; a line
\* the text does not have is left alone.
remote_delete_line(r, line) ==
    LET ls == SplitLines(r.text)
        ln == IF IsStr(line) THEN r.cursor.line ELSE line.v
    IN  IF ln \in DOMAIN ls
        THEN [r EXCEPT !.text = JoinLines([ls EXCEPT ![ln] = <<>>])]
        ELSE r

\* The editor after the command c.  A read-only editor ignores edits, but
\* not a new text.
remote_apply(r, c) ==
    CASE c.name = "set_text" ->
            [r EXCEPT !.text = c.payload.v,
                      !.cursor = [line |-> 1, column |-> 1]]
      [] c.name = "insert" ->
            IF r.readonly THEN r ELSE remote_insert(r, c.payload.v)
      [] c.name = "delete_line" ->
            IF r.readonly THEN r ELSE remote_delete_line(r, c.payload)
      [] c.name = "readonly" -> [r EXCEPT !.readonly = c.payload.v]
      [] c.name = "set_cursor" ->
            [r EXCEPT !.cursor = [line |-> c.payload.v.line.v,
                                  column |-> c.payload.v.column.v]]
      [] OTHER -> r

\* The event the editor emits for its text.
value_changed_event(r) ==
    [name |-> "on_value_changed", value |-> JsonDumps(r.text)]

\* A call of the application while the remote side stands by; the calls it
\* has made are counted, the constructor aside.
AppCall(op, arg, r) ==
    /\ Cardinality({i \in DOMAIN calls :
                       calls[i].op \notin {"__init__", "on_new_data_received"}})
          < MaxAppCalls
    /\ Apply(op, arg, r)
    /\ UNCHANGED <<remote, delivered, inbound>>

AppSetText ==
    \E v \in {StrV(<<"a">>), StrV(<<"a", NL, "b">>)} :
        AppCall("set_text", v, set_text(Self, v))

AppInsertText ==
    \E p \in {insert_payload(StrV(<<"x">>), NoneV, NoneV),
              insert_payload(StrV(<<"x">>), IntV(2), NoneV)} :
        AppCall("insert_text", p,
                insert_text(Self, p.v.text, p.v.line, p.v.column))

AppDeleteLine ==
    \E line \in LineArgs :
        AppCall("delete_line", line, delete_line(Self, line))

AppSetReadonly ==
    \E b \in Bools : AppCall("set_readonly", b, set_readonly(Self, b))

AppSetCursor ==
    AppCall("set_cursor",
            DictV([line |-> IntV(2), column |-> IntV(1),
                   moveToPosition |-> NoneV]),
            set_cursor(Self, IntV(2), IntV(1), NoneV))

\* The page has loaded and its script listens from now on: the commands
\* sent before reached no listener, and the script reports that it is ready.
PageReady ==
    /\ ~remote.loaded
    /\ remote' = [remote EXCEPT !.loaded = TRUE, !.dropped = Len(outbound)]
    /\ delivered' = Len(outbound)
    /\ inbound' = Append(inbound, [name |-> "bridge_initialized",
                                   value |-> Texts.true])
    /\ UNCHANGED <<bridge, server, calls>>

\* The connector delivers the oldest command in flight; the editor emits its
\* text when the command changed it, and may emit it for a set_text that
\* did not.
Deliver ==
    /\ remote.loaded
    /\ delivered < Len(outbound)
    /\ LET c == outbound[delivered + 1]
           after == remote_apply(remote, c)
       IN  /\ remote' = after
           /\ \E echo \in BOOLEAN :
                 /\ after.text # remote.text => echo
                 /\ echo => (after.text # remote.text \/ c.name = "set_text")
                 /\ inbound' = IF echo
                               THEN Append(inbound, value_changed_event(after))
                               ELSE inbound
    /\ delivered' = delivered + 1
    /\ UNCHANGED <<bridge, server, calls>>

\* The user types into an editor that is not read-only.
RemoteEdit ==
    /\ remote.loaded
    /\ ~remote.readonly
    /\ remote.edits < MaxRemoteEdits
    /\ LET after == [remote EXCEPT !.text = @ \o <<"z">>, !.edits = @ + 1]
       IN  /\ remote' = after
           /\ inbound' = Append(inbound, value_changed_event(after))
    /\ UNCHANGED <<bridge, server, calls, delivered>>

\* The connector delivers the oldest event in flight to the dispatcher.
ReceiveEvent ==
    /\ inbound # <<>>
    /\ LET e == Head(inbound)
       IN  Apply("on_new_data_received",
                 DictV([name |-> e.name, value |-> StrV(e.value)]),
                 on_new_data_received(Self, e.name, e.value))
    /\ inbound' = Tail(inbound)
    /\ UNCHANGED <<remote, delivered>>

NextRemote ==
    \/ AppSetText
    \/ AppInsertText
    \/ AppDeleteLine
    \/ AppSetReadonly
    \/ AppSetCursor
    \/ PageReady
    \/ Deliver
    \/ RemoteEdit
    \/ ReceiveEvent

\* The bridge is new and the page of the editor has not loaded yet.
SpecRemote == Init /\ [][NextRemote]_vars

(***************************************************************************)
(* Bridges and the language server.  Bridges are constructed one after the *)
(* other, each replacing the one before; the server can be stopped, and    *)
(* started again by others, on another port.                               *)
(***************************************************************************)
\* Monaco(): resolves the host, starting the server when it is not running.
Construct ==
    /\ Len(calls) <= MaxLspSteps
    /\ Apply("__init__", NoneV, __init__(Blank(server), NoneV))
    /\ UNCHANGED <<remote, delivered, inbound>>

\* The events that bear on the address, their values JSON: the web page
\* reports that it is ready, or that it is not, names the address or the
\* method sending it, or has the bridge constructed again.
LspEvents ==
    UNION {{<<name, text>> : text \in TypedTexts(name)} :
           name \in {"bridge_initialized", "pylsp_host", "_set_host",
                      "__init__", "__class__"}}

ReceiveLspEvent ==
    /\ Len(calls) <= MaxLspSteps
    /\ \E e \in LspEvents :
          \E qt \in QtChoices(e) :
              Apply("on_new_data_received",
                    DictV([name |-> e[1], value |-> StrV(e[2])]),
                    on_new_data_received([Self EXCEPT !.qt = qt], e[1], e[2]))
    /\ UNCHANGED <<remote, delivered, inbound>>

\* The server stops; its next start binds some port.
ServerStop ==
    /\ pylsp_is_running(server)
    /\ \E p \in Ports :
          server' = [server EXCEPT !.running = FALSE, !.bind = p]
    /\ UNCHANGED <<bridge, calls, remote, delivered, inbound>>

\* start() called by another user of the server.
ServerStart ==
    /\ ~pylsp_is_running(server)
    /\ server.starts <= MaxServerStarts
    /\ server' = pylsp_start(server)
    /\ UNCHANGED <<bridge, calls, remote, delivered, inbound>>

NextLsp ==
    \/ Construct
    \/ ReceiveLspEvent
    \/ ServerStop
    \/ ServerStart

SpecLsp == Init /\ [][NextLsp]_vars

(***************************************************************************)
(* Vocabulary of the properties.                                           *)
(***************************************************************************)
\* The call made last, and in a step the call the step makes.
Last == calls[Len(calls)]
NewCall == calls'[Len(calls')]

\* The step is a call of method op.
Called(op) == Len(calls') = Len(calls) + 1 /\ NewCall.op = op

\* The mirror says that the editor is read-only, and that it is ready.
ReadOnly == readonly # Absent /\ Truthy(readonly)
Ready == initialized # Absent /\ Truthy(initialized)

\* The bridge has the attributes __init__ gave it: no inbound event has
\* removed a field, put a value in place of the connector, or given the
\* instance an attribute with the name of a method or a signal.
Intact ==
    /\ Present = FieldNames
    /\ connector = ConnectorV
    /\ (DOMAIN extras) \cap ClassNames = {}

\* The mirror fields of the editor state.
Mirror ==
    <<value, language, theme, readonly, current_cursor, lsp_header,
      initialized>>

\* What the call r of a getter gives its caller: the value it returns or
\* the exception it raises; and the outcome of a call that returns v.
Outcome(r) ==
    IF r.raised = "None" THEN <<"returns", r.value>>
    ELSE <<"raises", r.raised>>
Returns(v) == <<"returns", v>>

Command(name, payload) == [name |-> name, payload |-> payload]
Notification(sig, arg) == [sig |-> sig, arg |-> arg]

\* How many commands called name were sent, and signals called sig raised.
Sent(name) == Cardinality({i \in DOMAIN outbound : outbound[i].name = name})
Raised(sig) == Cardinality({i \in DOMAIN signals : signals[i].sig = sig})

\* The step sends no command, raises no signal, prints no warning.
Silent == outbound' = outbound /\ signals' = signals /\ warnings' = warnings

(***************************************************************************)
(* C1 as stated.  While the editor is not read-only, after set_text(s)     *)
(* of a string s get_text() returns s; the call sends nothing, or one      *)
(* set_text command carrying s, and that only when s differs from the      *)
(* mirror text; and a second set_text(s) right after it sends nothing and  *)
(* raises no text_changed.                                                 *)
(***************************************************************************)
C1_Step ==
    (Called("set_text") /\ IsStr(NewCall.arg) /\ ~ReadOnly) =>
        /\ Outcome(get_text(Self))' = Returns(NewCall.arg)
        /\ \/ outbound' = outbound
           \/ /\ value # NewCall.arg
              /\ outbound' =
                    Append(outbound, Command("set_text", NewCall.arg))
        /\ (Last.op = "set_text" /\ Last.arg = NewCall.arg)
              => (outbound' = outbound /\ signals' = signals)

C1_Claim == [][C1_Step]_vars

C2_Step ==
    (Called("set_text") /\ ReadOnly) =>
        /\ NewCall.raised =
              IF "set_text" \in DOMAIN extras THEN "TypeError"
              ELSE IF value = Absent THEN "AttributeError"
              ELSE IF PyEq(value, NewCall.arg) THEN "None"
              ELSE ReadOnlyError
        /\ Mirror' = Mirror
        /\ Silent

C3_Claim ==
    [][(Called("on_new_data_received")
            /\ ~JsonLoads(NewCall.arg.v.value.v).ok)
          => /\ NewCall.raised = "None"
             /\ warnings' = warnings + 1
             /\ Mirror' = Mirror
             /\ outbound' = outbound]_vars

(***************************************************************************)
(* C4.  An inbound event with a well-formed JSON value whose name is no    *)
(* member of the bridge raises nothing, leaves every mirror field          *)
(* unchanged, sends no command, raises no signal and prints exactly one    *)
(* warning.                                                                *)
(***************************************************************************)
C4_Step ==
    (/\ Called("on_new_data_received")
     /\ ~HasAttr(Self, NewCall.arg.v.name)
     /\ JsonLoads(NewCall.arg.v.value.v).ok) =>
        /\ NewCall.raised = "None"
        /\ Mirror' = Mirror
        /\ outbound' = outbound
        /\ signals' = signals
        /\ warnings' = warnings + 1

C4_UnknownName == [][C4_Step]_vars

\* An event with an unknown name and the value true was dispatched.
C4_Witness ==
    /\ Last.op = "on_new_data_received"
    /\ Last.arg.v.name = "no_such_member"
    /\ Last.arg.v.value = StrV(<<"t", "r", "u", "e">>)
    /\ Last.raised = "None"
    /\ warnings = 1

(***************************************************************************)
(* C5 as stated.  A freshly constructed bridge is not ready and has sent   *)
(* no lsp_url command.  From a bridge that is not ready and has sent none, *)
(* the step that makes readiness true sends exactly one lsp_url command,   *)
(* carrying "localhost:" followed by the port the language server reports, *)
(* and raises initialized once; any other step sends no lsp_url command.   *)
(***************************************************************************)
C5_Fresh == ~Ready /\ Sent("lsp_url") = 0

C5_Step ==
    C5_Fresh =>
        IF Ready'
        THEN /\ outbound' =
                   Append(outbound,
                          Command("lsp_url",
                                  StrV(Localhost \o IntToStr(server.port))))
             /\ signals' = Append(signals, Notification("initialized", NoneV))
        ELSE Sent("lsp_url")' = 0

C5_Claim == C5_Fresh /\ [][C5_Step]_vars

(***************************************************************************)
(* C6.  Setting bridge_initialized to a value equal to its current value   *)
(* changes nothing and raises no initialized notification; setting it to   *)
(* another value stores the value and raises initialized exactly once.     *)
(* The same readiness event twice in a row raises no notification the      *)
(* second time.                                                            *)
(***************************************************************************)
C6_Step ==
    (/\ Called("on_new_data_received")
     /\ NewCall.arg.v.name = "bridge_initialized"
     /\ JsonLoads(NewCall.arg.v.value.v).ok) =>
        LET v == JsonLoads(NewCall.arg.v.value.v).data IN
        /\ initialized # Absent =>
              IF PyEq(initialized, v)
              THEN Mirror' = Mirror /\ Silent
              ELSE /\ initialized' = v
                   /\ Raised("initialized")' = Raised("initialized") + 1
        /\ Last = NewCall => signals' = signals

C7_Claim ==
    [][Ready
          => /\ Ready'
             /\ Raised("initialized")' = 1
             /\ Sent("lsp_url")' = 1]_vars

(***************************************************************************)
(* C8.  Commands are only ever appended to the outbound sequence, and no   *)
(* set_text, insert or delete_line command is appended by a call made      *)
(* while the mirror is read-only; insert_text and delete_line called       *)
(* while read-only raise the read-only error, whatever their arguments.    *)
(***************************************************************************)
GuardedCommands == {"set_text", "insert", "delete_line"}

C8_Step ==
    /\ Len(outbound') >= Len(outbound)
    /\ SubSeq(outbound', 1, Len(outbound)) = outbound
    /\ ReadOnly =>
          \A i \in (Len(outbound) + 1)..Len(outbound') :
              outbound'[i].name \notin GuardedCommands
    /\ ((Called("insert_text") \/ Called("delete_line")) /\ ReadOnly)
          => (NewCall.raised = ReadOnlyError /\ outbound' = outbound)

C8_ReadonlyGuard == [][C8_Step]_vars

\* delete_line refused on a read-only bridge, nothing sent but readonly.
C8_Witness ==
    /\ ReadOnly
    /\ Last = [op |-> "delete_line", arg |-> IntV(2), raised |-> ReadOnlyError]
    /\ outbound = <<Command("readonly", BoolV(TRUE))>>

(***************************************************************************)
(* C9 as stated.  insert_text of a string while the editor is not          *)
(* read-only: a line without a column sends one insert command with the    *)
(* line and column 1; a column without a line raises the column error and  *)
(* sends nothing; neither sends line and column None; both are sent as     *)
(* given.                                                                  *)
(***************************************************************************)
C9_Step ==
    (/\ Called("insert_text")
     /\ ~ReadOnly
     /\ IsStr(NewCall.arg.v.text)) =>
        LET a == NewCall.arg.v
            sends(line, column) ==
                outbound' =
                   Append(outbound,
                          Command("insert",
                                  DictV([text |-> a.text, line |-> line,
                                         column |-> column])))
        IN  CASE a.line # NoneV /\ a.column = NoneV -> sends(a.line, IntV(1))
              [] a.line = NoneV /\ a.column # NoneV ->
                    NewCall.raised = ColumnError /\ outbound' = outbound
              [] a.line = NoneV /\ a.column = NoneV -> sends(NoneV, NoneV)
              [] OTHER -> sends(a.line, a.column)

C9_Claim == [][C9_Step]_vars

(***************************************************************************)
(* C10 as stated.  After set_lsp_header(h) of a string h the mirror        *)
(* header is the input without the whitespace at its two ends, followed    *)
(* by one newline: it ends with exactly one newline and has no other       *)
(* whitespace at either end.  get_lsp_header() returns it, the one         *)
(* set_lsp_header command sent carries it, and normalizing it again gives  *)
(* it back.                                                                *)
(***************************************************************************)
\* body is raw without a prefix and a suffix made of whitespace only.
TrimmedOf(body, raw) ==
    \E i \in 0..Len(raw) :
        \E j \in i..Len(raw) :
            /\ body = SubSeq(raw, i + 1, j)
            /\ \A k \in 1..i : raw[k] \in Whitespace
            /\ \A k \in (j + 1)..Len(raw) : raw[k] \in Whitespace

C10_Step ==
    (Called("set_lsp_header") /\ IsStr(NewCall.arg)) =>
        LET h == lsp_header'
            body == SubSeq(h.v, 1, Len(h.v) - 1)
        IN  /\ IsStr(h)
            /\ h.v # <<>>
            /\ h.v[Len(h.v)] = NL
            /\ body # <<>> =>
                  (/\ body[1] \notin Whitespace
                   /\ body[Len(body)] \notin Whitespace)
            /\ TrimmedOf(body, NewCall.arg.v)
            /\ Outcome(get_lsp_header(Self))' = Returns(h)
            /\ outbound' = Append(outbound, Command("set_lsp_header", h))
            /\ normalize_header(h.v) = h.v

C10_Claim == [][C10_Step]_vars

(***************************************************************************)
(* C12 as stated.  set_language(l) and set_theme(t) are unconditional: in  *)
(* every state, read-only or not, and whether or not the argument is the   *)
(* mirror value already, the call returns normally, sets the mirror field  *)
(* to the argument, sends exactly one language / theme command carrying    *)
(* it and raises exactly one language_changed / theme_changed              *)
(* notification carrying it; get_language() / get_theme() then return the  *)
(* argument.                                                               *)
(***************************************************************************)
C12_Step ==
    /\ Called("set_language") =>
          /\ NewCall.raised = "None"
          /\ language' = NewCall.arg
          /\ Outcome(get_language(Self))' = Returns(NewCall.arg)
          /\ outbound' = Append(outbound, Command("language", NewCall.arg))
          /\ signals' =
                Append(signals, Notification("language_changed", NewCall.arg))
    /\ Called("set_theme") =>
          /\ NewCall.raised = "None"
          /\ theme' = NewCall.arg
          /\ Outcome(get_theme(Self))' = Returns(NewCall.arg)
          /\ outbound' = Append(outbound, Command("theme", NewCall.arg))
          /\ signals' =
                Append(signals, Notification("theme_changed", NewCall.arg))

C12_Claim == [][C12_Step]_vars

(***************************************************************************)
(* C13.  Every successful encoder call other than a set_text of the text   *)
(* the mirror already holds appends exactly one command to the outbound    *)
(* queue, so that commands are queued in call order; its name is the       *)
(* vocabulary name of the operation and its payload has the shape listed   *)
(* for that name.  A set_text of the mirror text returns normally and      *)
(* queues nothing.  Every command ever queued has a name of the            *)
(* vocabulary.                                                             *)
(***************************************************************************)
Vocabulary ==
    {"set_text", "insert", "delete_line", "language", "minimap", "theme",
     "readonly", "set_cursor", "highlight_lines", "remove_highlight",
     "vim_mode", "set_lsp_header", "lsp_url"}

\* The encoder methods, and the step is a call of one that returned.
EncoderOps ==
    {"set_text", "insert_text", "delete_line", "set_language",
     "set_minimap_enabled", "set_theme", "set_readonly", "set_cursor",
     "set_highlighted_lines", "clear_highlighted_lines",
     "set_vim_mode_enabled", "set_lsp_header"}

EncoderReturned ==
    /\ Len(calls') = Len(calls) + 1
    /\ NewCall.op \in EncoderOps
    /\ NewCall.raised = "None"

\* The command the vocabulary lists for the call of op with arguments arg.
ListedName(op) ==
    CASE op = "set_text" -> "set_text"
      [] op = "insert_text" -> "insert"
      [] op = "delete_line" -> "delete_line"
      [] op = "set_language" -> "language"
      [] op = "set_minimap_enabled" -> "minimap"
      [] op = "set_theme" -> "theme"
      [] op = "set_readonly" -> "readonly"
      [] op = "set_cursor" -> "set_cursor"
      [] op = "set_highlighted_lines" -> "highlight_lines"
      [] op = "clear_highlighted_lines" -> "remove_highlight"
      [] op = "set_vim_mode_enabled" -> "vim_mode"
      [] op = "set_lsp_header" -> "set_lsp_header"

ListedShape(op, arg, payload) ==
    CASE op = "insert_text" ->
            /\ payload.t = "dict"
            /\ DOMAIN payload.v = {"text", "line", "column"}
            /\ payload.v.text = arg.v.text
            /\ payload.v.line = arg.v.line
            /\ payload.v.column =
                  IF arg.v.line # NoneV /\ arg.v.column = NoneV THEN IntV(1)
                  ELSE arg.v.column
      [] op = "delete_line" ->
            payload = IF arg = NoneV
                      THEN StrV(<<"c", "u", "r", "r", "e", "n", "t">>)
                      ELSE arg
      [] op = "set_cursor" ->
            /\ payload.t = "dict"
            /\ DOMAIN payload.v = {"line", "column", "moveToPosition"}
            /\ payload = arg
      [] op = "set_highlighted_lines" ->
            /\ payload.t = "dict"
            /\ DOMAIN payload.v = {"start", "end"}
            /\ payload = arg
      [] op = "clear_highlighted_lines" -> payload = DictV(<<>>)
      [] op = "set_lsp_header" ->
            /\ IsStr(payload)
            /\ EndsWith(payload.v, NL)
            /\ payload = lsp_header'
      [] OTHER -> payload = arg

\* The claim as stated: every successful encoder call queues one command.
C13_OriginalStep ==
    EncoderReturned =>
        /\ Len(outbound') = Len(outbound) + 1
        /\ SubSeq(outbound', 1, Len(outbound)) = outbound
        /\ outbound'[Len(outbound')].name = ListedName(NewCall.op)

C13_Original == [][C13_OriginalStep]_vars

C13_Step ==
    /\ EncoderReturned =>
          IF NewCall.op = "set_text" /\ PyEq(value, NewCall.arg)
          THEN outbound' = outbound
          ELSE /\ Len(outbound') = Len(outbound) + 1
               /\ SubSeq(outbound', 1, Len(outbound)) = outbound
               /\ LET c == outbound'[Len(outbound')]
                  IN  /\ c.name = ListedName(NewCall.op)
                      /\ ListedShape(NewCall.op, NewCall.arg, c.payload)
    /\ \A i \in DOMAIN outbound' : outbound'[i].name \in Vocabulary

C13_OneCommand == [][C13_Step]_vars

\* delete_line() without a line sent the sentinel "current", after a
\* set_cursor that sent its three fields.
C13_Witness ==
    /\ Len(calls) = 3
    /\ calls[2].op = "set_cursor"
    /\ Last = [op |-> "delete_line", arg |-> NoneV, raised |-> "None"]
    /\ Len(outbound) = 2
    /\ outbound[1].name = "set_cursor"
    /\ DOMAIN outbound[1].payload.v = {"line", "column", "moveToPosition"}
    /\ outbound[2] =
          Command("delete_line", StrV(<<"c", "u", "r", "r", "e", "n", "t">>))

(***************************************************************************)
(* C14.  Local validation failures are synchronous and leave no trace:     *)
(* a call of set_text, insert_text, delete_line or set_lsp_header on a     *)
(* read-only editor (a set_text of the mirror text aside), with a text,    *)
(* value or header that is no string, or with a column and no line,        *)
(* raises to its caller; and whenever one of these calls raises the        *)
(* read-only error, the type error or the column error, no command is      *)
(* sent, no notification raised, no warning printed and no mirror field    *)
(* changed.  On a bridge with the attributes __init__ gave it these are    *)
(* the only errors the four methods raise, and only for such calls.        *)
(***************************************************************************)
ValidatedOps == {"set_text", "insert_text", "delete_line", "set_lsp_header"}

\* The call of op with arguments arg is invalid in the current state.
InvalidCall(op, arg) ==
    CASE op = "set_text" ->
            ~PyEq(value, arg) /\ (ReadOnly \/ ~IsStr(arg))
      [] op = "insert_text" ->
            \/ ReadOnly
            \/ ~IsStr(arg.v.text)
            \/ arg.v.column # NoneV /\ arg.v.line = NoneV
      [] op = "delete_line" -> ReadOnly
      [] op = "set_lsp_header" -> ~IsStr(arg)

ValidationErrors == {ReadOnlyError, "TypeError", ColumnError}

C14_Step ==
    (Len(calls') = Len(calls) + 1 /\ NewCall.op \in ValidatedOps) =>
        /\ InvalidCall(NewCall.op, NewCall.arg) => NewCall.raised # "None"
        /\ NewCall.raised \in ValidationErrors => (Mirror' = Mirror /\ Silent)
        /\ Intact =>
              /\ NewCall.raised \in {"None"} \cup ValidationErrors
              /\ NewCall.raised # "None" =>
                    InvalidCall(NewCall.op, NewCall.arg)

C14_FailuresLeaveNoTrace == [][C14_Step]_vars

\* After one command was sent, insert_text with a column and no line raised,
\* and the command sent before is still the only one.
C14_Witness ==
    /\ Len(calls) = 3
    /\ calls[2] = [op |-> "set_text", arg |-> StrV(<<"a">>), raised |-> "None"]
    /\ Last = [op |-> "insert_text",
               arg |-> insert_payload(StrV(<<"x">>), NoneV, IntV(3)),
               raised |-> ColumnError]
    /\ outbound = <<Command("set_text", StrV(<<"a">>))>>
    /\ signals = <<Notification("text_changed", StrV(<<"a">>))>>
    /\ value = StrV(<<"a">>)
    /\ Intact

(***************************************************************************)
(* C16 as stated.  An inbound on_value_changed event whose value parses    *)
(* to v sets the text mirror to v and raises exactly one text_changed      *)
(* notification carrying v when v differs from the mirror text, and does   *)
(* nothing when v is the mirror text.  Either way it sends no command and  *)
(* changes no other mirror field, and it is applied whether or not the     *)
(* editor is read-only.                                                    *)
(***************************************************************************)
\* The step dispatches the inbound event called name.
Dispatched(name) ==
    /\ Called("on_new_data_received")
    /\ NewCall.arg.v.name = name

C16_Step ==
    (/\ Dispatched("on_value_changed")
     /\ JsonLoads(NewCall.arg.v.value.v).ok) =>
        LET v == JsonLoads(NewCall.arg.v.value.v).data
        IN  /\ outbound' = outbound
            /\ value' = v
            /\ <<language, theme, readonly, current_cursor, lsp_header,
                 initialized>>' =
               <<language, theme, readonly, current_cursor, lsp_header,
                 initialized>>
            /\ IF v = value THEN signals' = signals
               ELSE signals' = Append(signals, Notification("text_changed", v))

C16_Claim == [][C16_Step]_vars

(***************************************************************************)
(* C17.  Dispatch resolution order, for an inbound event (name, value)     *)
(* whose value is JSON: if the bridge has a callable member called name,   *)
(* it is invoked once with the parsed value and no field is assigned       *)
(* otherwise; else, if the bridge has a member called name, the parsed     *)
(* value is assigned to it (through the idempotent setter for the          *)
(* readiness property); in both cases the dispatch returns normally and    *)
(* prints no warning.                                                      *)
(***************************************************************************)
\* The value of the member called name of the object self.
Member(self, name) ==
    CASE name = "bridge_initialized" -> bridge_initialized(self)
      [] name = "current_cursor" -> current_cursor_property(self)
      [] OTHER -> GetOr(self, name)

C17_Step ==
    (Called("on_new_data_received") /\ JsonLoads(NewCall.arg.v.value.v).ok) =>
        LET name == NewCall.arg.v.name
            data == JsonLoads(NewCall.arg.v.value.v).data
        IN  IF IsCallable(Self, name)
            THEN /\ warnings' = warnings
                 /\ Self' = call_method(Self, name, data).self
                 /\ NewCall.raised = call_method(Self, name, data).raised
            ELSE HasAttr(Self, name) =>
                    /\ NewCall.raised = "None"
                    /\ warnings' = warnings
                    /\ Member(Self', name) = data
                    /\ name = "bridge_initialized" =>
                          Self' = set_bridge_initialized(Self, data).self

C17_Claim == [][C17_Step]_vars

(***************************************************************************)
(* C18.  The fire-and-forget operations insert_text, delete_line,          *)
(* set_cursor, set_minimap_enabled, set_vim_mode_enabled,                  *)
(* set_highlighted_lines and clear_highlighted_lines change no mirror      *)
(* field (text, language, theme, readonly, cursor, LSP header,             *)
(* initialized) and raise no notification: get_text() is what it was       *)
(* before insert_text or delete_line, and current_cursor what it was       *)
(* before set_cursor.                                                      *)
(***************************************************************************)
FireAndForgetOps ==
    {"insert_text", "delete_line", "set_cursor", "set_minimap_enabled",
     "set_vim_mode_enabled", "set_highlighted_lines",
     "clear_highlighted_lines"}

C18_Step ==
    (Len(calls') = Len(calls) + 1 /\ NewCall.op \in FireAndForgetOps) =>
        /\ Mirror' = Mirror
        /\ signals' = signals
        /\ Outcome(get_text(Self))' = Outcome(get_text(Self))
        /\ current_cursor_property(Self)' = current_cursor_property(Self)

C18_FireAndForget == [][C18_Step]_vars

\* After set_text("a"), set_cursor(3, 1) sent its command and the cursor
\* mirror is still the initial position.
C18_Witness ==
    /\ Len(calls) = 3
    /\ calls[2] = [op |-> "set_text", arg |-> StrV(<<"a">>), raised |-> "None"]
    /\ Last.op = "set_cursor"
    /\ Last.raised = "None"
    /\ Sent("set_cursor") = 1
    /\ current_cursor = DictV([line |-> IntV(1), column |-> IntV(1)])
    /\ Outcome(get_text(Self)) = Returns(StrV(<<"a">>))
    /\ Raised("text_changed") = 1

(***************************************************************************)
(* C19.  Over any sequence of encoder calls and dispatched inbound events, *)
(* every change of the text mirror comes with exactly one text_changed     *)
(* notification carrying the new mirror text, and text_changed is never    *)
(* raised without a change of the text mirror: the value notified is what  *)
(* get_text() returns at that moment and differs from the text before.     *)
(***************************************************************************)
\* The text_changed notifications raised by the step.
NewTextChanged ==
    SelectSeq(SubSeq(signals', Len(signals) + 1, Len(signals')),
              LAMBDA n : n.sig = "text_changed")

C19_Step ==
    /\ value' # value <=> Len(NewTextChanged) = 1
    /\ Len(NewTextChanged) <= 1
    /\ Len(NewTextChanged) = 1 => 
          Outcome(get_text(Self))' = Returns(NewTextChanged[1].arg)

C19_Claim == [][C19_Step]_vars

(***************************************************************************)
(* C15.  Text-mirror convergence.  With the bridge Ready, commands and     *)
(* events delivered reliably and in order (no command was sent before the  *)
(* editor listened), and an editor that emits on_value_changed with its    *)
(* whole text after every change: for any interleaving of set_text,        *)
(* insert_text and delete_line calls with edits made in the editor,        *)
(* whenever no command and no event is in flight get_text() is the text    *)
(* of the editor.                                                          *)
(***************************************************************************)
\* No command and no event is in flight.
Quiescent == delivered = Len(outbound) /\ inbound = <<>>

C11_Step ==
    Called("set_readonly") =>
        /\ NewCall.raised = "None"
        /\ outbound' = Append(outbound, Command("readonly", NewCall.arg))
        /\ readonly' = NewCall.arg

\* The set_readonly calls made, and the commands still in flight.
ReadonlyCalls == {i \in DOMAIN calls : calls[i].op = "set_readonly"}
InFlight == SubSeq(outbound, delivered + 1, Len(outbound))

\* The latest readonly command was sent after the page had loaded.
LatestHeard ==
    \E i \in DOMAIN outbound :
        /\ i > remote.dropped
        /\ outbound[i].name = "readonly"
        /\ remote.loaded

C11_Delivered ==
    (/\ Ready
     /\ ReadonlyCalls # {}
     /\ LatestHeard
     /\ \A i \in DOMAIN InFlight : InFlight[i].name # "readonly") =>
        LET latest == CHOOSE i \in ReadonlyCalls :
                          \A j \in ReadonlyCalls : j <= i
        IN  /\ remote.readonly = calls[latest].arg.v
            /\ readonly = calls[latest].arg

C11_Claim == []C11_Delivered /\ [][C11_Step]_vars

(***************************************************************************)
(* C20 as stated.  Language-server start-up is lazy and idempotent: the    *)
(* construction of a bridge calls start() only when is_running() is false, *)
(* so that constructions made while the server runs start nothing.  Each   *)
(* bridge resolves its address once, at construction, as "localhost:" and  *)
(* the port of the server at that moment; no later step changes it, and    *)
(* every lsp_url command the bridge sends carries it.                      *)
(***************************************************************************)
\* The commands the step sends.
NewCommands ==
    IF Called("__init__") THEN outbound'
    ELSE SubSeq(outbound', Len(outbound) + 1, Len(outbound'))

C20_Step ==
    /\ Called("__init__") =>
          /\ IF server.running THEN server' = server
             ELSE /\ server'.running
                  /\ server'.starts = server.starts + 1
          /\ pylsp_host' = StrV(Localhost \o IntToStr(server'.port))
          /\ outbound' = <<>>
    /\ ~Called("__init__") => pylsp_host' = pylsp_host
    /\ \A i \in DOMAIN NewCommands :
          NewCommands[i].name = "lsp_url" =>
              NewCommands[i].payload = pylsp_host'

C20_Claim == [][C20_Step]_vars

====
